---- MODULE Spec2Model ----
(***************************************************************************)
(* The Redis processor of lib/processor/redis.go as a state machine: one   *)
(* stage instance (its configuration, its client handle, its counters),    *)
(* the remote set store it talks to, and the three calls of the stage      *)
(* contract: ProcessMessage (split at the points where the retry loop      *)
(* blocks), CloseAsync and WaitForClose.                                   *)
(***************************************************************************)
EXTENDS Integers, Sequences, FiniteSets, TLC

\* ---------------------------------------------------------------- bounds
MaxRetries == 1     \* configured retries range over 0..MaxRetries and the default
MaxParts == 2       \* longest batch handed to ProcessMessage
MaxWork == 3        \* batches plus parts accepted by ProcessMessage per behaviour
MaxCloses == 2      \* WaitForClose calls per behaviour

\* ------------------------------------------------------ program constants
DefaultRetries == 3 \* NewRedisConfig: Retries: 3

\* ------------------------------------------------------------ data values
\* An error value of type error: nil, or the error the n-th remote call of
\* the current operator invocation produced (every failing call produces its
\* own error value, so the first and the last failure are distinguishable).
NilErr == [failed |-> FALSE, attempt |-> 0]
CallErr(n) == [failed |-> TRUE, attempt |-> n]

\* A nil []byte.
NilBytes == << >>

DigitChars == <<"0", "1", "2", "3", "4", "5", "6", "7", "8", "9">>

\* strconv.AppendInt(nil, n, 10) for n >= 0: most significant digit first,
\* no leading zeros, "0" for zero.
RECURSIVE FormatUint(_)
FormatUint(n) ==
  IF n < 10 THEN <<DigitChars[n + 1]>>
  ELSE FormatUint(n \div 10) \o <<DigitChars[(n % 10) + 1]>>

\* AppendInt with the base mistaken for 16.
HexChars == DigitChars \o <<"a", "b", "c", "d", "e", "f">>

RECURSIVE FormatUint16(_)
FormatUint16(n) ==
  IF n < 16 THEN <<HexChars[n + 1]>>
  ELSE FormatUint16(n \div 16) \o <<HexChars[(n % 16) + 1]>>

AppendIntBase16(n) ==
  IF n < 0 THEN <<"-">> \o FormatUint16(0 - n) ELSE FormatUint16(n)

\* strconv.AppendInt(nil, n, 10): a minus sign in front of a negative value.
AppendInt(n) == IF n < 0 THEN <<"-">> \o FormatUint(0 - n) ELSE FormatUint(n)

\* ------------------------------------------------------- the remote store
Keys == {"s1", "s2", "s3"}

\* n distinct members m1 .. mn.
MemberSet(n) == { <<"m">> \o FormatUint(k) : k \in 1..n }

\* The remote set store before the stage runs: s1 has 4 members, s2 does not
\* exist (a missing key is an empty set), s3 has 12 members.
InitStore == [k \in Keys |-> CASE k = "s1" -> MemberSet(4)
                               [] k = "s2" -> {}
                               [] OTHER -> MemberSet(12)]

\* scard: the cardinality of the set, 0 when the key does not exist.
\* sadd: 1 when the member was added, 0 when it was already there.
CmdResult(op, st, key, value) ==
  IF op = "scard" THEN Cardinality(st[key])
  ELSE IF value \in st[key] THEN 0 ELSE 1

CmdStore(op, st, key, value) ==
  IF op = "scard" THEN st
  ELSE [st EXCEPT ![key] = @ \cup {value}]

\* ------------------------------------------------------------- the inputs
Operators == {"scard", "sadd"}

\* getRedisOperator taking an unknown name for scard.
getRedisOperatorLenient(opStr) ==
  IF opStr = "sadd" THEN [operator |-> "sadd", err |-> FALSE]
  ELSE [operator |-> "scard", err |-> FALSE]

\* getRedisOperator: the operator resolved from its name, or an error.
getRedisOperator(opStr) ==
  IF opStr = "sadd" THEN [operator |-> "sadd", err |-> FALSE]
  ELSE IF opStr = "scard" THEN [operator |-> "scard", err |-> FALSE]
  ELSE [operator |-> "none", err |-> TRUE]

RetriesChoices == (0..MaxRetries) \cup {DefaultRetries}

\* conf.Redis.Parts: empty (every part), or a valid and an out-of-range index.
PartsChoices == { {}, {1, 5} }

\* A part: its payload and the set_key metadata field the key expression
\* ${! meta("set_key") } reads.
PartChoices ==
  { [data |-> <<"m", "1">>, key |-> "s1", flagged |-> FALSE],
    [data |-> <<"b">>, key |-> "s2", flagged |-> FALSE],
    [data |-> <<"a">>, key |-> "s3", flagged |-> FALSE] }

Batches == UNION { [1..n -> PartChoices] : n \in 0..MaxParts }

Timeouts == {2}
Latencies == {1, 3}

\* ------------------------------------------------------------------ state
VARIABLES
  conf,            \* r.conf.Redis: Retries, Operator, Parts
  operator,        \* r.operator, resolved at construction
  store,           \* the remote set store
  clientCloses,    \* how many times r.client.Close() was called
  closeRequested,  \* CloseAsync has been called
  waitRet,         \* the last WaitForClose call: timeout, close latency, error
  msg,             \* the batch handed to ProcessMessage
  newMsg,          \* msg.Copy(), the batch being worked on
  result,          \* what the last ProcessMessage returned
  pc,              \* where ProcessMessage stands
  targets,         \* indices IteratePartsWithSpan still has to visit
  visited,         \* indices proc has been applied to, in order
  failedParts,     \* indices for which proc returned an error
  index,           \* the index proc is working on
  i, res, err,     \* the locals of the operator's retry loop
  callLog,         \* the remote calls of the current invocation: res and err
  mRedisRetry0,    \* mRedisRetry when the current operator invocation started
  mCount, mErr, mSent, mBatchSent, mRedisRetry,
  mErr0,           \* mErr when the current ProcessMessage started
  waits,           \* retry_period waits performed
  calls,           \* remote calls issued
  invocations,     \* operator invocations started
  constructors,    \* the registry map: entries of type name and constructor
  linked,          \* the init functions of the program
  phase,           \* "init" while init functions run, then "main"
  constructRet,    \* the last Construct call and what it returned
  newRedisRet      \* the last NewRedis call and what it returned

stageVars == <<conf, operator>>
closeVars == <<clientCloses, closeRequested, waitRet>>
batchVars == <<msg, newMsg, result, targets, visited, failedParts, index>>
loopVars == <<i, res, err, callLog, mRedisRetry0>>
history == <<waits, calls, invocations>>

runVars == <<conf, operator, store, clientCloses, closeRequested, waitRet,
             msg, newMsg, result, pc, targets, visited, failedParts,
             index, i, res, err, callLog, mRedisRetry0, mCount, mErr, mSent,
             mBatchSent, mRedisRetry, mErr0, waits, calls, invocations>>
buildVars == <<constructors, linked, phase, constructRet, newRedisRet>>

vars == <<runVars, buildVars>>

\* ------------------------------------------------------------ the helpers
\* The elements of a finite set of integers in ascending order.
RECURSIVE Ascending(_)
Ascending(S) ==
  IF S = {} THEN << >>
  ELSE LET m == CHOOSE x \in S : \A y \in S : x <= y
       IN <<m>> \o Ascending(S \ {m})

\* IteratePartsWithSpan: the indices visited for a batch of n parts. An empty
\* selection targets every part; out-of-range indices are ignored.
Targets(parts, n) ==
  IF parts = {} THEN Ascending(0..(n - 1))
  ELSE Ascending({ k \in parts : 0 <= k /\ k < n })

\* msg.Copy(): a batch with the same parts, mutable on its own.
Copy(m) == m

\* r.key.String(index, newMsg): the key expression evaluated for one part.
KeyString(idx, m) == m[idx + 1].key

\* part.Get()
Get(m, idx) == m[idx + 1].data

\* part.Set(data)
Set(m, idx, data) == [m EXCEPT ![idx + 1].data = data]

\* IteratePartsWithSpan records an error returned by fn against the part.
FlagErr(m, idx) == [m EXCEPT ![idx + 1].flagged = TRUE]

\* r.client.SCard(key).Result() / r.client.SAdd(key, value).Result(): the
\* n-th remote call of an invocation, which succeeds or fails.
ClientCall(op, st, key, value, ok, n) ==
  IF ok
  THEN [res |-> CmdResult(op, st, key, value), err |-> NilErr,
        store |-> CmdStore(op, st, key, value)]
  ELSE [res |-> 0, err |-> CallErr(n), store |-> st]

\* The retry loop re-entered whatever the last call returned.
LoopCondIgnoringErr(ii, e) == ii <= conf.Retries

\* The condition of the retry loop: i <= r.conf.Redis.Retries && err != nil.
LoopCond(ii, e) == ii <= conf.Retries /\ e.failed

\* The operator returning the error of its first call instead of the last.
OperatorReturnFirstErr(r, e) ==
  IF e.failed THEN [bytes |-> NilBytes, err |-> callLog[1].err]
  ELSE [bytes |-> AppendInt(r), err |-> NilErr]

\* What the operator returns once the loop is left.
OperatorReturn(r, e) ==
  IF e.failed THEN [bytes |-> NilBytes, err |-> e]
  ELSE [bytes |-> AppendInt(r), err |-> NilErr]

\* proc without its early return: the part is set whatever the operator
\* returned.
procResultSetOnError(m, idx, ret) ==
  [newMsg |-> Set(m, idx, ret.bytes),
   mErrIncr |-> IF ret.err.failed THEN 1 ELSE 0,
   err |-> ret.err]

\* proc, once the operator has returned ret for the part at idx of m: an error
\* is counted and returned with the part left alone, a result is set as the
\* part's payload.
procResult(m, idx, ret) ==
  IF ret.err.failed
  THEN [newMsg |-> m, mErrIncr |-> 1, err |-> ret.err]
  ELSE [newMsg |-> Set(m, idx, ret.bytes), mErrIncr |-> 0, err |-> NilErr]

\* The parts setting dropped at construction: r.parts left nil.
rPartsNil == {}

\* r.parts, set from conf.Redis.Parts at construction and handed to
\* IteratePartsWithSpan.
rParts == conf.Parts

\* The iteration run on the caller's batch itself: a write to the working
\* batch is a write to the input.
InputAliased(input, work) == work

\* The caller's batch once the working batch has become `work`: proc's writes
\* go to newMsg, the copy handed to IteratePartsWithSpan, never to msg.
InputAfterWrite(input, work) == input

\* The operator handing back control while its retry loop still waits.
OperatorReturnedEarly == pc \in {"return", "wait"}

\* The operator has left its retry loop and returns to proc, which is called
\* synchronously by the iteration.
OperatorReturned == pc = "return"

\* The wait ended only by a close request.
WaitEndsOnClose == pc = "wait" /\ closeRequested

\* <-time.After(r.retryPeriod): the timer fires whenever the loop waits.
WaitElapsed == pc = "wait"

\* The retry counter left alone.
mRedisRetryNoIncr(c) == c

\* r.mRedisRetry.Incr(1)
mRedisRetryIncr(c) == c + 1

\* Every batch counted as one sent message.
SentIncrOne(m) == 1

\* int64(newMsg.Len()), what mSent grows by.
SentIncr(m) == Len(m)

\* ----------------------------------------------------------- construction
\* The init functions that register a stage kind, one per kind, named by the
\* kind they register.
Inits == {"stdout", "zmq4", "redis"}

\* Every init function registering under the one name "stdout".
InitKeyClash(f) == "stdout"

\* The type name an init function registers under: its own kind's.
InitKey(f) == f

\* The constructor an init function registers.
InitCtor(f) ==
  CASE f = "stdout" -> "NewSTDOUT"
    [] f = "zmq4" -> "NewZMQ4"
    [] OTHER -> "NewRedis"

\* constructors[name] = ctor: a map assignment.
MapPut(reg, name, ctor) ==
  { e \in reg : e.name # name } \cup {[name |-> name, ctor |-> ctor]}

\* c, ok := constructors[name]
MapHas(reg, name) == \E e \in reg : e.name = name
MapGet(reg, name) == (CHOOSE e \in reg : e.name = name).ctor

\* An init function has run: its constructor is in the map.
InitRan(reg, f) == \E e \in reg : e.ctor = InitCtor(f)

\* conf.Type: the registered names and one that no init function registers.
TypeNames == Inits \cup {"nonesuch"}

\* output.Config: the type and the settings of the one kind that has any.
OutputConfigs == [Type : TypeNames, ZMQ4 : {"zmq4 defaults", "zmq4 custom"}]

\* What a registered constructor returns for a configuration: a stage, or a
\* construction error.
CtorOutcomes ==
  { [stage |-> "stage", err |-> "nil"],
    [stage |-> "nil", err |-> "construction error"] }

NoCtorOutcome == [stage |-> "nil", err |-> "nil"]

NoConstruct ==
  [called |-> FALSE, conf |-> [Type |-> "nonesuch", ZMQ4 |-> "zmq4 defaults"],
   invoked |-> << >>, returned |-> NoCtorOutcome, stage |-> "nil",
   err |-> "nil"]

\* Construct falling back to the stdout constructor for an unknown type.
ConstructResultFallback(reg, c, out) ==
  IF MapHas(reg, c.Type) \/ MapHas(reg, "stdout")
  THEN [invoked |-> <<[ctor |-> MapGet(reg, IF MapHas(reg, c.Type) THEN c.Type
                                            ELSE "stdout"),
                       conf |-> c]>>,
        stage |-> out.stage, err |-> out.err]
  ELSE [invoked |-> << >>, stage |-> "nil", err |-> "ErrInvalidOutputType"]

\* Construct(conf): the constructor registered under conf.Type is called with
\* conf and what it returns (out) is returned; an unknown type is an error.
ConstructResult(reg, c, out) ==
  IF MapHas(reg, c.Type)
  THEN [invoked |-> <<[ctor |-> MapGet(reg, c.Type), conf |-> c]>>,
        stage |-> out.stage, err |-> out.err]
  ELSE [invoked |-> << >>, stage |-> "nil", err |-> "ErrInvalidOutputType"]

\* conf.Redis.RetryPeriod: empty, the default, and a string that is no
\* duration.
RetryPeriodChoices == {"", "500ms", "half a second"}

\* time.ParseDuration on the strings above.
ParseDuration(str) ==
  IF str = "500ms" THEN [ms |-> 500, err |-> FALSE]
  ELSE [ms |-> 0, err |-> TRUE]

\* conf.Redis.Key: a well-formed and a malformed field expression.
KeyChoices == {"${! meta(set_key) }", "${! meta(set_key"}

\* bloblang.NewField on the strings above.
NewField(expr) == [err |-> expr # "${! meta(set_key) }"]

\* conf.Redis.Operator: the two operators and a name that is neither.
OperatorNames == Operators \cup {"smembers"}

RedisConfigs ==
  [RetryPeriod : RetryPeriodChoices, Key : KeyChoices, Operator : OperatorNames]

NoStage == [present |-> FALSE, operator |-> "none", retryPeriod |-> 0]

NoNewRedis ==
  [called |-> FALSE,
   conf |-> [RetryPeriod |-> "", Key |-> "${! meta(set_key) }",
             Operator |-> "scard"],
   stage |-> NoStage, err |-> "nil", clientsCreated |-> 0, clientsClosed |-> 0]

\* NewRedis(conf, ...): parse the retry period, create the client (clientOk:
\* whether conf.Redis.Config.Client() succeeds), parse the key expression,
\* build the stage, resolve the operator. No path closes the client.
NewRedisResult(c, clientOk) ==
  LET parsed == ParseDuration(c.RetryPeriod)
      period == IF c.RetryPeriod # "" THEN parsed.ms ELSE 0
      op == getRedisOperator(c.Operator)
  IN IF c.RetryPeriod # "" /\ parsed.err
     THEN [stage |-> NoStage, err |-> "failed to parse retry period string",
           clientsCreated |-> 0, clientsClosed |-> 0]
     ELSE IF ~clientOk
     THEN [stage |-> NoStage, err |-> "client error",
           clientsCreated |-> 0, clientsClosed |-> 0]
     ELSE IF NewField(c.Key).err
     THEN [stage |-> NoStage, err |-> "failed to parse key expression",
           clientsCreated |-> 1, clientsClosed |-> 0]
     ELSE IF op.err
     THEN [stage |-> NoStage, err |-> "operator not recognised",
           clientsCreated |-> 1, clientsClosed |-> 0]
     ELSE [stage |-> [present |-> TRUE, operator |-> op.operator,
                      retryPeriod |-> period],
           err |-> "nil", clientsCreated |-> 1, clientsClosed |-> 0]

\* ------------------------------------------------------------------- Init
\* The stage right after NewRedis has built it from conf.
RunStart ==
  /\ operator = getRedisOperator(conf.Operator).operator
  /\ store = InitStore
  /\ clientCloses = 0
  /\ closeRequested = FALSE
  /\ waitRet = [called |-> FALSE, afterClose |-> FALSE, timeout |-> 0,
                latency |-> 0, err |-> "nil"]
  /\ msg = << >>
  /\ newMsg = << >>
  /\ result = [msgs |-> << >>, response |-> "nil"]
  /\ pc = "idle"
  /\ targets = << >>
  /\ visited = << >>
  /\ failedParts = {}
  /\ index = -1
  /\ i = 0
  /\ res = 0
  /\ err = NilErr
  /\ callLog = << >>
  /\ mRedisRetry0 = 0
  /\ mCount = 0
  /\ mErr = 0
  /\ mSent = 0
  /\ mBatchSent = 0
  /\ mRedisRetry = 0
  /\ mErr0 = 0
  /\ waits = 0
  /\ calls = 0
  /\ invocations = 0

\* No construction going on: the registry and the constructors are at rest.
BuildIdle ==
  /\ constructors = {}
  /\ linked = {}
  /\ phase = "main"
  /\ constructRet = NoConstruct
  /\ newRedisRet = NoNewRedis

Init ==
  /\ conf \in [Retries : RetriesChoices, Operator : Operators, Parts : PartsChoices]
  /\ RunStart
  /\ BuildIdle

\* ---------------------------------------------------------------- actions
\* ProcessMessage, up to the call of IteratePartsWithSpan: count the batch,
\* copy it, and pick the first targeted part.
ProcessMessage(m) ==
  /\ pc = "idle"
  /\ mCount + mSent + 1 + Len(m) <= MaxWork
  /\ mCount' = mCount + 1
  /\ mErr0' = mErr
  /\ msg' = m
  /\ newMsg' = Copy(m)
  /\ LET ts == Targets(rParts, Len(m))
     IN /\ targets' = ts
        /\ pc' = IF ts = << >> THEN "finish" ELSE "proc"
        /\ index' = IF ts = << >> THEN -1 ELSE Head(ts)
  /\ visited' = << >>
  /\ failedParts' = {}
  /\ UNCHANGED buildVars
  /\ UNCHANGED <<stageVars, store, closeVars, result, loopVars, mErr, mSent,
                 mBatchSent, mRedisRetry, history>>

\* proc calls the operator, which issues its first remote call and then
\* either enters the retry loop (and blocks in time.After) or leaves it.
OperatorCall(ok) ==
  /\ pc = "proc"
  /\ LET c == ClientCall(operator, store, KeyString(index, newMsg),
                         Get(newMsg, index), ok, 1)
     IN /\ res' = c.res
        /\ err' = c.err
        /\ store' = c.store
        /\ callLog' = <<[res |-> c.res, err |-> c.err]>>
        /\ pc' = IF LoopCond(0, c.err) THEN "wait" ELSE "return"
  /\ i' = 0
  /\ mRedisRetry0' = mRedisRetry
  /\ visited' = Append(visited, index)
  /\ calls' = calls + 1
  /\ invocations' = invocations + 1
  /\ UNCHANGED buildVars
  /\ UNCHANGED <<stageVars, clientCloses, closeRequested, waitRet, msg, newMsg,
                 result, targets, failedParts, index, mCount, mErr, mSent,
                 mBatchSent, mRedisRetry, mErr0, waits>>

\* One iteration of the retry loop: the wait of retry_period ends, the retry
\* counter is incremented, the remote call is issued again, i++.
OperatorRetry(ok) ==
  /\ WaitElapsed
  /\ waits' = waits + 1
  /\ mRedisRetry' = mRedisRetryIncr(mRedisRetry)
  /\ mRedisRetry0' = mRedisRetry0
  /\ LET c == ClientCall(operator, store, KeyString(index, newMsg),
                         Get(newMsg, index), ok, Len(callLog) + 1)
     IN /\ res' = c.res
        /\ err' = c.err
        /\ store' = c.store
        /\ callLog' = Append(callLog, [res |-> c.res, err |-> c.err])
        /\ pc' = IF LoopCond(i + 1, c.err) THEN "wait" ELSE "return"
  /\ i' = i + 1
  /\ calls' = calls + 1
  /\ UNCHANGED buildVars
  /\ UNCHANGED <<stageVars, closeVars, batchVars, mCount, mErr, mSent,
                 mBatchSent, mErr0, invocations>>

\* The operator returns to proc: an error is counted and returned (the part
\* is flagged by the iteration), a result replaces the payload; the iteration
\* moves on to the next targeted part.
ProcReturn ==
  /\ OperatorReturned
  /\ LET p == procResult(newMsg, index, OperatorReturn(res, err))
         rest == Tail(targets)
     IN /\ mErr' = mErr + p.mErrIncr
        /\ newMsg' = IF p.err.failed THEN FlagErr(p.newMsg, index) ELSE p.newMsg
        /\ msg' = InputAfterWrite(msg, newMsg')
        /\ failedParts' = IF p.err.failed THEN failedParts \cup {index}
                          ELSE failedParts
        /\ targets' = rest
        /\ pc' = IF rest = << >> THEN "finish" ELSE "proc"
        /\ index' = IF rest = << >> THEN -1 ELSE Head(rest)
  /\ i' = 0
  /\ res' = 0
  /\ err' = NilErr
  /\ callLog' = << >>
  /\ mRedisRetry0' = mRedisRetry
  /\ UNCHANGED buildVars
  /\ UNCHANGED <<stageVars, store, clientCloses, closeRequested, waitRet,
                 result, visited, mCount, mSent, mBatchSent, mRedisRetry, mErr0,
                 history>>

\* ProcessMessage after IteratePartsWithSpan: count and return the batch.
ProcessMessageReturn ==
  /\ pc = "finish"
  /\ mBatchSent' = mBatchSent + 1
  /\ mSent' = mSent + SentIncr(newMsg)
  /\ result' = [msgs |-> <<newMsg>>, response |-> "nil"]
  /\ pc' = "idle"
  /\ UNCHANGED buildVars
  /\ UNCHANGED <<stageVars, store, closeVars, msg, newMsg, targets, visited,
                 failedParts, index, loopVars, mCount, mErr, mRedisRetry, mErr0,
                 history>>

\* CloseAsync: the body is empty; that it was called is recorded.
CloseAsync ==
  /\ closeRequested' = TRUE
  /\ UNCHANGED buildVars
  /\ UNCHANGED <<stageVars, store, clientCloses, waitRet, batchVars, pc,
                 loopVars, mCount, mErr, mSent, mBatchSent, mRedisRetry, mErr0,
                 history>>

\* WaitForClose(timeout): closes the client, which takes `latency`, and
\* returns nil.
WaitForClose(timeout, latency) ==
  /\ clientCloses < MaxCloses
  /\ clientCloses' = clientCloses + 1
  /\ waitRet' = [called |-> TRUE, afterClose |-> closeRequested,
                 timeout |-> timeout, latency |-> latency, err |-> "nil"]
  /\ UNCHANGED buildVars
  /\ UNCHANGED <<stageVars, store, closeRequested, batchVars, pc,
                 loopVars, mCount, mErr, mSent, mBatchSent, mRedisRetry, mErr0,
                 history>>

Next ==
  \/ \E m \in Batches : ProcessMessage(m)
  \/ \E ok \in BOOLEAN : OperatorCall(ok)
  \/ \E ok \in BOOLEAN : OperatorRetry(ok)
  \/ ProcReturn
  \/ ProcessMessageReturn
  \/ CloseAsync
  \/ \E t \in Timeouts, l \in Latencies : WaitForClose(t, l)

Spec == Init /\ [][Next]_vars

\* -------------------------------------------------- construction: actions
\* An init function runs (each once, before main) and registers its kind.
RegisterInit(f) ==
  /\ phase = "init"
  /\ f \in linked
  /\ ~InitRan(constructors, f)
  /\ constructors' = MapPut(constructors, InitKey(f), InitCtor(f))
  /\ UNCHANGED <<linked, phase, constructRet, newRedisRet>>
  /\ UNCHANGED runVars

\* Every init function has run: main starts.
StartMain ==
  /\ phase = "init"
  /\ \A f \in linked : InitRan(constructors, f)
  /\ phase' = "main"
  /\ UNCHANGED <<constructors, linked, constructRet, newRedisRet>>
  /\ UNCHANGED runVars

\* Construct(c), the registered constructor returning out when it is called.
Construct(c, out) ==
  /\ phase = "main"
  /\ LET r == ConstructResult(constructors, c, out)
     IN constructRet' = [called |-> TRUE, conf |-> c, invoked |-> r.invoked,
                         returned |-> IF r.invoked = << >> THEN NoCtorOutcome
                                      ELSE out,
                         stage |-> r.stage, err |-> r.err]
  /\ UNCHANGED <<constructors, linked, phase, newRedisRet>>
  /\ UNCHANGED runVars

\* NewRedis(c, ...), the client being created or not.
NewRedis(c, clientOk) ==
  /\ phase = "main"
  /\ LET r == NewRedisResult(c, clientOk)
     IN newRedisRet' = [called |-> TRUE, conf |-> c, stage |-> r.stage,
                        err |-> r.err, clientsCreated |-> r.clientsCreated,
                        clientsClosed |-> r.clientsClosed]
  /\ UNCHANGED <<constructors, linked, phase, constructRet>>
  /\ UNCHANGED runVars

\* Process start: the program's init functions are fixed at link time, the
\* registry map is empty, no stage is running.
BuildInit ==
  /\ conf = [Retries |-> DefaultRetries, Operator |-> "scard", Parts |-> {}]
  /\ RunStart
  /\ constructors = {}
  /\ linked \in SUBSET Inits
  /\ phase = "init"
  /\ constructRet = NoConstruct
  /\ newRedisRet = NoNewRedis

BuildNext ==
  \/ \E f \in Inits : RegisterInit(f)
  \/ StartMain
  \/ \E c \in OutputConfigs, out \in CtorOutcomes : Construct(c, out)
  \/ \E c \in RedisConfigs, clientOk \in BOOLEAN : NewRedis(c, clientOk)

SpecBuild == BuildInit /\ [][BuildNext]_vars

\* ===================================================================
\* The claims
\* ===================================================================

\* The last remote call of the current invocation.
LastCall == callLog[Len(callLog)]

\* The value of a text of decimal digits, -1 when it is not one.
RECURSIVE ParseUint(_)
ParseUint(t) ==
  IF t = << >> THEN -1
  ELSE LET d == { k \in 0..9 : DigitChars[k + 1] = t[Len(t)] }
       IN IF d = {} THEN -1
          ELSE IF Len(t) = 1 THEN CHOOSE k \in d : TRUE
          ELSE LET hi == ParseUint(SubSeq(t, 1, Len(t) - 1))
               IN IF hi < 0 THEN -1 ELSE hi * 10 + (CHOOSE k \in d : TRUE)

\* A text of decimal digits without a leading zero ("0" itself excepted).
Canonical(t) == ParseUint(t) >= 0 /\ (Len(t) > 1 => t[1] # "0")

\* C1: an operator invocation with configured retries r never issues more
\* than r + 1 remote calls. (The loop runs for i = 0 .. r, so after the first
\* call it retries r + 1 times: the code issues up to r + 2 calls.)
C1_AtMostRetriesPlusOneCalls == Len(callLog) <= conf.Retries + 1

\* C2: when every remote call fails, the invocation returns its error after
\* exactly r + 1 remote calls. (The code returns after r + 2.)
C2_AllFailingMakesRetriesPlusOneCalls ==
  (pc = "return" /\ err.failed) => Len(callLog) = conf.Retries + 1

\* C3: when the remote call fails k <= r times and then succeeds, the
\* invocation returns the success result, issues no call after the first
\* success, and increments redis.retry exactly k times: only the last call of
\* an invocation can be a success, the invocation does not give up before
\* r + 1 calls have failed, and on a success after k failures it returns the
\* text of that call's result with no error, the counter k higher than when
\* it started.
C3_FailKTimesThenSucceed ==
  /\ \A j \in 1..(Len(callLog) - 1) : callLog[j].err.failed
  /\ (pc = "return" /\ err.failed) => Len(callLog) >= conf.Retries + 1
  /\ (pc = "return" /\ Len(callLog) >= 1 /\ ~LastCall.err.failed
        /\ Len(callLog) - 1 <= conf.Retries)
       => /\ OperatorReturn(res, err) =
               [bytes |-> AppendInt(LastCall.res), err |-> NilErr]
          /\ mRedisRetry - mRedisRetry0 = Len(callLog) - 1

\* C3's case: the default three retries, three failures and then a success.
C3_Witness ==
  /\ pc = "return"
  /\ conf.Retries = DefaultRetries
  /\ Len(callLog) = DefaultRetries + 1
  /\ ~err.failed
  /\ mRedisRetry - mRedisRetry0 = DefaultRetries

\* C4: when an invocation exhausts its attempts, it returns exactly the error
\* of the last remote call it made, and no result bytes.
C4_ReturnsLastError ==
  (pc = "return" /\ err.failed)
    => /\ OperatorReturn(res, err).err = LastCall.err
       /\ OperatorReturn(res, err).err = CallErr(Len(callLog))
       /\ OperatorReturn(res, err).bytes = NilBytes

\* C4's case: an invocation gives up after more than one failed call.
C4_Witness ==
  /\ pc = "return"
  /\ err.failed
  /\ Len(callLog) >= 2
  /\ callLog[1].err # LastCall.err

\* C5: when the operator fails for good on a targeted part, every other
\* targeted part is still processed, the failed part's payload is left as it
\* was, and the error counter goes up by one per failed part: once the
\* iteration is over, every selected index of the batch has been visited, the
\* failed parts hold their input payload, and the error counter has grown by
\* the number of failed parts.
C5_FailureIsolatedPerPart ==
  pc = "finish"
    => /\ \A k \in 0..(Len(msg) - 1) :
            (conf.Parts = {} \/ k \in conf.Parts)
              => \E j \in 1..Len(visited) : visited[j] = k
       /\ \A k \in failedParts : newMsg[k + 1].data = msg[k + 1].data
       /\ mErr - mErr0 = Cardinality(failedParts)

\* C5's case: the first of two targeted parts failed for good and the second
\* was processed and got its result.
C5_Witness ==
  /\ pc = "finish"
  /\ visited = <<0, 1>>
  /\ failedParts = {0}
  /\ newMsg[1].data = msg[1].data
  /\ newMsg[2].data # msg[2].data
  /\ mErr - mErr0 = 1

\* C6: when CloseAsync is called while the retry loop waits out retry_period,
\* no further remote call is issued for that part. (CloseAsync is empty and
\* the wait is a plain <-time.After: the loop goes on and calls again.)
C6_CloseStopsRetries ==
  [][(closeRequested /\ pc = "wait") => calls' = calls]_vars

\* C7: WaitForClose called after CloseAsync returns no error when the client
\* closes within the timeout, and a timeout error when the timeout is shorter
\* than the time the client takes to close. (The code ignores the timeout and
\* returns nil.)
C7_WaitForCloseTimesOut ==
  (waitRet.called /\ waitRet.afterClose)
    => waitRet.err = (IF waitRet.timeout < waitRet.latency
                      THEN "timeout" ELSE "nil")

\* C8: over any sequence of calls on one stage, the client handle is closed
\* at most once. (Every WaitForClose call closes it again.)
C8_ClientClosedAtMostOnce == clientCloses <= 1

\* C9: the stage becomes Closed only by a WaitForClose that follows
\* CloseAsync, and once Closed it issues no remote call on the client. (The
\* code keeps no lifecycle state: WaitForClose closes the client whether or
\* not CloseAsync was called, and ProcessMessage calls a closed client.)
C9_Lifecycle ==
  [][/\ (clientCloses = 0 /\ clientCloses' > 0) => closeRequested
     /\ clientCloses > 0 => calls' = calls]_vars

\* C10: for every targeted part on which the operator succeeds, the payload
\* becomes the base-10 text of the integer the remote call returned (for scard
\* the cardinality of the set, 0 for a missing key; for sadd the count added),
\* and no retry is recorded when no call failed: keys with 4 members and a
\* missing key give "4" and "0". Stated of the step in which proc takes the
\* operator's return.
C10_PayloadIsDecimalOfResult ==
  [][(pc = "return" /\ pc' # "return" /\ ~err.failed)
       => LET data == newMsg'[index + 1].data
              key == KeyString(index, newMsg)
          IN /\ Canonical(data)
             /\ ParseUint(data) = LastCall.res
             /\ operator = "scard" => ParseUint(data) = Cardinality(store[key])
             /\ operator = "sadd" => /\ ParseUint(data) \in {0, 1}
                                     /\ Get(newMsg, index) \in store[key]
             /\ (operator = "scard" /\ key = "s1") => data = <<"4">>
             /\ (operator = "scard" /\ key = "s2") => data = <<"0">>
             /\ (operator = "scard" /\ key = "s3") => data = <<"1", "2">>
             /\ Len(callLog) = 1 => mRedisRetry = mRedisRetry0]_vars

\* C10's case: a batch of two parts, key s1 with 4 members and the missing
\* key s2, processed by scard with no failing call.
C10_Witness ==
  /\ pc = "finish"
  /\ operator = "scard"
  /\ Len(newMsg) = 2
  /\ msg[1].key = "s1" /\ msg[2].key = "s2"
  /\ newMsg[1].data = <<"4">> /\ newMsg[2].data = <<"0">>
  /\ failedParts = {}
  /\ mRedisRetry = 0

\* -------------------------------------------------------------------
\* The processing steps the goroutine running ProcessMessage takes on its
\* own: a remote call returns, the retry timer fires, proc and ProcessMessage
\* return. Calls of the stage contract (ProcessMessage, CloseAsync,
\* WaitForClose) are the caller's and carry no fairness.
ProcessingStep ==
  \/ \E ok \in BOOLEAN : OperatorCall(ok)
  \/ \E ok \in BOOLEAN : OperatorRetry(ok)
  \/ ProcReturn
  \/ ProcessMessageReturn

\* ProcessMessage calls running to their end, with close requests arriving at
\* any point. WaitForClose is left out: it writes the client handle and its
\* own return value only, which no step of ProcessMessage reads.
FairNext ==
  \/ \E m \in Batches : ProcessMessage(m)
  \/ ProcessingStep
  \/ CloseAsync

SpecFair == Init /\ [][FairNext]_vars /\ WF_vars(ProcessingStep)

\* The indices of the current batch the parts setting selects.
Selected ==
  { k \in 0..(Len(msg) - 1) : conf.Parts = {} \/ k \in conf.Parts }

\* C11: ProcessMessage applies the operator exactly once to each in-range
\* index the parts setting selects (every index when it is empty), in
\* ascending order, and to no other part: the visited indices are strictly
\* ascending and selected, and when the iteration is over they are all the
\* selected ones.
C11_VisitsSelectedOnceAscending ==
  /\ \A j \in 1..(Len(visited) - 1) : visited[j] < visited[j + 1]
  /\ \A j \in 1..Len(visited) : visited[j] \in Selected
  /\ pc \in {"finish", "idle"}
       => { visited[j] : j \in 1..Len(visited) } = Selected

\* C11's case: parts {1, 5} on a batch of two: index 1 is visited, the
\* out-of-range 5 and the unselected 0 are not.
C11_Witness ==
  /\ pc = "finish"
  /\ conf.Parts = {1, 5}
  /\ Len(msg) = 2
  /\ visited = <<1>>

\* C12: ProcessMessage never changes the batch it was given: while a call is
\* in progress, whatever parts succeed or fail, the input batch stays as it
\* was handed in.
C12_InputBatchUnchanged == [][pc # "idle" => msg' = msg]_vars

\* C12's case: the working batch has a part replaced by a result and a part
\* flagged as failed, and the input still holds its payloads.
C12_Witness ==
  /\ pc = "finish"
  /\ Len(msg) = 2
  /\ failedParts = {0}
  /\ newMsg[2].data # msg[2].data
  /\ newMsg[1].flagged /\ ~msg[1].flagged

\* C16 as stated: while the operator for one part waits out retry_period,
\* processing of another targeted part of the batch can make progress. (The
\* iteration is sequential and the wait blocks it: no step that visits or
\* moves on to another part is possible.)
C16_WaitDoesNotBlockOtherParts ==
  (pc = "wait" /\ Len(targets) > 1)
    => ENABLED (ProcessingStep /\ (visited' # visited \/ index' # index))

\* C16 as amended: the retry wait of one part blocks the rest of its batch:
\* while the operator for a part waits, no other part is visited, picked or
\* written.
C16_WaitBlocksTheBatch ==
  [][pc = "wait"
       => /\ visited' = visited
          /\ index' = index
          /\ targets' = targets
          /\ newMsg' = newMsg]_vars

\* C16's case: the operator for the first of two targeted parts waits.
C16_Witness ==
  /\ pc = "wait"
  /\ index = 0
  /\ Len(targets) = 2
  /\ visited = <<0>>

\* C17: ProcessMessage always terminates: a call in progress eventually
\* returns, whatever the batch, the retries setting and the failures.
C17_ProcessMessageTerminates == (pc # "idle") ~> (pc = "idle")

\* C17's case: a call has returned after every remote call for every part of
\* a batch of two failed, with the default retries.
C17_Witness ==
  /\ pc = "idle"
  /\ mCount = 1
  /\ conf.Retries = DefaultRetries
  /\ Len(msg) = 2
  /\ failedParts = {0, 1}
  /\ calls = 2 * (DefaultRetries + 2)

\* C18: every ProcessMessage call, whatever parts fail, returns exactly one
\* batch with the parts of the input in the same order and a nil response,
\* and adds 1 to count, 1 to batch.sent and the number of parts to sent.
C18_OneBatchOutAndCounters ==
  [][/\ (pc = "idle" /\ pc' # "idle")
          => /\ mCount' = mCount + 1
             /\ mBatchSent' = mBatchSent
             /\ mSent' = mSent
     /\ (pc # "idle" /\ pc' = "idle")
          => /\ Len(result'.msgs) = 1
             /\ Len(result'.msgs[1]) = Len(msg)
             /\ \A k \in 1..Len(msg) : result'.msgs[1][k].key = msg[k].key
             /\ result'.response = "nil"
             /\ mCount' = mCount
             /\ mBatchSent' = mBatchSent + 1
             /\ mSent' = mSent + Len(msg)
     /\ (pc # "idle" /\ pc' # "idle")
          => /\ mCount' = mCount
             /\ mBatchSent' = mBatchSent
             /\ mSent' = mSent]_vars

\* C18's case: a call on a batch of two has returned with one part failed.
C18_Witness ==
  /\ pc = "idle"
  /\ Len(msg) = 2
  /\ Cardinality(failedParts) = 1
  /\ mCount = 1 /\ mBatchSent = 1 /\ mSent = 2
  /\ Len(result.msgs) = 1

\* C19: between retry-loop iterations, redis.retry equals the remote calls
\* issued minus the operator invocations started, and equals the retry_period
\* waits performed.
C19_RetryCounterCountsRetries ==
  /\ mRedisRetry = calls - invocations
  /\ mRedisRetry = waits

\* C19's case: two invocations, the second with retries.
C19_Witness ==
  /\ invocations = 2
  /\ calls >= 4
  /\ mRedisRetry = calls - 2
  /\ pc = "wait"

\* C13: Construct(conf) fails with the invalid-type error and calls no
\* constructor when conf.Type is not registered; when it is, Construct calls
\* exactly that name's constructor, once, with conf, and returns its stage and
\* error unchanged.
C13_ConstructDispatches ==
  constructRet.called
    => LET c == constructRet.conf
       IN IF \E e \in constructors : e.name = c.Type
          THEN /\ Len(constructRet.invoked) = 1
               /\ [name |-> c.Type, ctor |-> constructRet.invoked[1].ctor]
                    \in constructors
               /\ constructRet.invoked[1].ctor = InitCtor(c.Type)
               /\ constructRet.invoked[1].conf = c
               /\ constructRet.stage = constructRet.returned.stage
               /\ constructRet.err = constructRet.returned.err
          ELSE /\ constructRet.invoked = << >>
               /\ constructRet.stage = "nil"
               /\ constructRet.err = "ErrInvalidOutputType"

\* C13's case: stdout is registered and zmq4 is not; Construct of a zmq4
\* configuration has failed with the invalid-type error.
C13_Witness ==
  /\ constructRet.called
  /\ constructRet.conf.Type = "zmq4"
  /\ linked = {"stdout"}
  /\ constructRet.err = "ErrInvalidOutputType"

\* C14: an operator name other than scard and sadd is rejected at
\* construction: NewRedis returns an error and no stage, so every stage
\* NewRedis returns holds one of the two operators.
C14_UnknownOperatorRejected ==
  newRedisRet.called
    => /\ newRedisRet.conf.Operator \notin {"scard", "sadd"}
            => /\ ~newRedisRet.stage.present
               /\ newRedisRet.err # "nil"
       /\ newRedisRet.stage.present
            => /\ newRedisRet.stage.operator = newRedisRet.conf.Operator
               /\ newRedisRet.stage.operator \in {"scard", "sadd"}
               /\ newRedisRet.err = "nil"

\* C14's case: everything but the operator name is in order.
C14_Witness ==
  /\ newRedisRet.called
  /\ newRedisRet.conf.Operator = "smembers"
  /\ newRedisRet.err = "operator not recognised"
  /\ ~newRedisRet.stage.present

\* C15: the registry is write-once per key and read-only after
\* initialization: an entry, once in the map, stays as it is through every
\* later registration and construction, and nothing is written after the
\* init functions have run.
C15_RegistryWriteOnce ==
  [][/\ \A e \in constructors : e \in constructors'
     /\ phase = "main" => constructors' = constructors]_vars

\* C15's case: three kinds registered, and a construction done since.
C15_Witness ==
  /\ phase = "main"
  /\ Cardinality(constructors) = 3
  /\ constructRet.called
  /\ constructRet.invoked # << >>

\* C20: whenever NewRedis returns an error, no client created during that
\* call is left open. (The client is created before the key expression is
\* parsed and the operator resolved, and neither error path closes it.)
C20_NoClientLeftOpenOnError ==
  (newRedisRet.called /\ newRedisRet.err # "nil")
    => newRedisRet.clientsCreated = newRedisRet.clientsClosed

====
